---- MODULE Spec2Model ----
(***************************************************************************)
(* MediSense: the Express mock server (src/server.ts), the dashboard's     *)
(* data refresh, route scoring / selection and analysis handler            *)
(* (src/src/App.tsx) and the explanation service                           *)
(* (src/src/services/geminiService.ts).                                    *)
(*                                                                         *)
(* Numbers.  JavaScript numbers are modelled exactly, as scaled integers:  *)
(*   - a Math.random() result r is an integer 0..999 standing for r/1000;  *)
(*   - telemetry inputs (trafficRisk, weatherRisk, ...) are in 1/10000;    *)
(*   - the two scores sent to the client are in 1/100, because the server  *)
(*     sends parseFloat(x.toFixed(2));                                     *)
(*   - riskFactor is in 1/100; delayRisk, objectiveValue and estTime are   *)
(*     in 1/10000 (minutes).                                               *)
(* Floating-point rounding error of the IEEE doubles is not modelled.      *)
(*                                                                         *)
(* Text.  A report is a sequence of strings (its lines and sentences); the *)
(* empty string '' is the empty sequence.                                  *)
(***************************************************************************)
EXTENDS Integers, Sequences, FiniteSets, TLC

VARIABLES
    apiKey,         \* process.env.GEMINI_API_KEY
    srvFleet,       \* server.ts: let fleet
    data,           \* App.tsx: useState<LogisticsData | null>(null)
    routes,         \* App.tsx: useState<Route[]>([])
    fleet,          \* App.tsx: useState<FleetUnit[]>([])
    aiExplanation,  \* App.tsx: useState<string>('')
    isAnalyzing,    \* App.tsx: useState(false)
    formulas,       \* server.ts: the locals of the latest run of the status handler's formulas
    isDispatching,  \* App.tsx: useState(false)
    dispatch,       \* the handleDispatch invocation in flight
    fetch,          \* the fetchData invocation in flight
    call,           \* the handleAnalyze / explainLogisticsRisk invocation in flight
    lastRequest     \* how the latest handleAnalyze invocation went (observation only)

vars == <<apiKey, srvFleet, formulas, data, routes, fleet, aiExplanation, isAnalyzing,
          isDispatching, dispatch, fetch, call, lastRequest>>

serverVars == <<srvFleet, formulas>>
clientData == <<data, routes, fleet>>
analysisVars == <<aiExplanation, isAnalyzing, call, lastRequest>>
dispatchVars == <<isDispatching, dispatch>>

----------------------------------------------------------------------------
(* Bounds of the model *)

\* longest candidate list drawn for the route selector
MaxRoutes == 3

\* most dispatches the server accepts in one behaviour
MaxDispatches == 2

----------------------------------------------------------------------------
(* Environment: the credential *)

KeyUnset == [set |-> FALSE, value |-> ""]
KeyEmpty == [set |-> TRUE, value |-> ""]
KeyPlaceholder == [set |-> TRUE, value |-> "YOUR_API_KEY"]
KeyReal == [set |-> TRUE, value |-> "AIza-key"]

KeyValues == {KeyUnset, KeyEmpty, KeyPlaceholder, KeyReal}

\* mutant: the placeholder is not recognised
hasApiKeyAnyValue(key) == key.set /\ key.value # ""

\* geminiService.ts:56   GEMINI_API_KEY && GEMINI_API_KEY !== "YOUR_API_KEY"
hasApiKey(key) == key.set /\ key.value # "" /\ key.value # "YOUR_API_KEY"

----------------------------------------------------------------------------
(* server.ts *)

InitialFleet ==
    << [id |-> "MED-100", type |-> "Organ Transport", destination |-> "St. Jude Medical", status |-> "In Transit", eta |-> "8 mins"],
       [id |-> "MED-101", type |-> "Blood Supply", destination |-> "City General", status |-> "Loading", eta |-> "15 mins"],
       [id |-> "MED-102", type |-> "Emergency Plasma", destination |-> "Central Hospital", status |-> "In Transit", eta |-> "4 mins"],
       [id |-> "MED-103", type |-> "Critical Equipment", destination |-> "North Clinic", status |-> "In Transit", eta |-> "12 mins"],
       [id |-> "MED-104", type |-> "Blood Supply", destination |-> "East Medical Center", status |-> "Loading", eta |-> "20 mins"],
       [id |-> "MED-105", type |-> "Organ Transport", destination |-> "West Surgical", status |-> "In Transit", eta |-> "6 mins"],
       [id |-> "MED-106", type |-> "Medicine Delivery", destination |-> "Childrens Hospital", status |-> "In Transit", eta |-> "10 mins"],
       [id |-> "MED-107", type |-> "Emergency Plasma", destination |-> "Trauma Center", status |-> "Loading", eta |-> "18 mins"],
       [id |-> "MED-108", type |-> "Blood Supply", destination |-> "General Clinic", status |-> "In Transit", eta |-> "5 mins"],
       [id |-> "MED-109", type |-> "Organ Transport", destination |-> "Heart Institute", status |-> "In Transit", eta |-> "9 mins"] >>

\* The Math.random() results drawn for one status request, each in 1/1000.
RandomSamples == {0, 999}

StatusDraws ==
    { [traffic |-> r, weather |-> r, incident |-> r,
       emergency |-> r, time |-> r, supply |-> r] : r \in RandomSamples }

\* x.toFixed(2) of a value given in 1/100000, as hundredths (round half up)
ToFixed2(x) == (x + 500) \div 1000

\* mutant: the weather risk ranges over [0.05, 0.55)
SubMetricsStormy(draw) ==
    [ trafficRisk |-> 2000 + 5 * draw.traffic,
      weatherRisk |-> 500 + 5 * draw.weather,
      historicalDelayRate |-> 1800,
      incidentDensity |-> 4 * draw.incident,
      emergencyLevel |-> 6000 + 4 * draw.emergency,
      timeSensitivity |-> 7000 + 3 * draw.time,
      criticalSupplyFactor |-> 5000 + 5 * draw.supply ]

\* server.ts:27-34   the sub-metrics, in 1/10000
SubMetrics(draw) ==
    [ trafficRisk |-> 2000 + 5 * draw.traffic,
      weatherRisk |-> 500 + 2 * draw.weather,
      historicalDelayRate |-> 1800,
      incidentDensity |-> 4 * draw.incident,
      emergencyLevel |-> 6000 + 4 * draw.emergency,
      timeSensitivity |-> 7000 + 3 * draw.time,
      criticalSupplyFactor |-> 5000 + 5 * draw.supply ]

\* mutant: the incident weight is 0.2, so the weights sum to 1.1
delayRiskScoreHeavyIncident(m) ==
    (m.trafficRisk * 4) + (m.weatherRisk * 3)
    + (m.historicalDelayRate * 2) + (m.incidentDensity * 2)

\* server.ts:37-42   weights 0.4, 0.3, 0.2, 0.1; the result is in 1/100000
delayRiskScoreOf(m) ==
    (m.trafficRisk * 4) + (m.weatherRisk * 3)
    + (m.historicalDelayRate * 2) + (m.incidentDensity * 1)

\* server.ts:44-48   weights 0.5, 0.3, 0.2; the result is in 1/100000
medicalPriorityScoreOf(m) ==
    (m.emergencyLevel * 5) + (m.timeSensitivity * 3) + (m.criticalSupplyFactor * 2)

\* server.ts:37-48   both formulas on the sub-metrics m
Formulas(m) ==
    [ pc |-> "scores", in |-> m,
      delayRiskScore |-> delayRiskScoreOf(m),
      medicalPriorityScore |-> medicalPriorityScoreOf(m) ]

\* server.ts:50-64   the body of the response
PayloadOf(m, fl) ==
    [ trafficRisk |-> m.trafficRisk,
      weatherRisk |-> m.weatherRisk,
      historicalDelayRate |-> m.historicalDelayRate,
      incidentDensity |-> m.incidentDensity,
      delayRiskScore |-> ToFixed2(delayRiskScoreOf(m)),
      emergencyLevel |-> m.emergencyLevel,
      timeSensitivity |-> m.timeSensitivity,
      criticalSupplyFactor |-> m.criticalSupplyFactor,
      medicalPriorityScore |-> ToFixed2(medicalPriorityScoreOf(m)),
      modelVersion |-> "2.2.0-HC-CORE",
      accuracy |-> "94.8%",
      activeFleets |-> Len(fl),
      onTimeRate |-> "98.4%" ]

\* GET /api/logistics/status
StatusPayload(draw, fl) == PayloadOf(SubMetrics(draw), fl)

\* server.ts:73-74
DispatchTypes == << "Organ Transport", "Blood Supply", "Emergency Plasma", "Medicine Delivery" >>
DispatchDestinations == << "Central General", "St. Jude Medical", "City Hospital", "Trauma Center" >>

\* The Math.random() results drawn for one dispatch request, each in 1/1000.
\* One draw is enough: nothing in the server or the client reads the type, the
\* destination or the eta of a unit.
DispatchDraws ==
    { [type |-> 0, destination |-> 999, eta |-> 999] }

\* Math.floor(r * n) for r in 1/1000
FloorOfRandomTimes(r, n) == (r * n) \div 1000

\* mutant: the id is numbered from the last unit, not from the next one
newIdFromLast(fl) == "MED-" \o ToString(100 + Len(fl) - 1)

\* server.ts:72
newId(fl) == "MED-" \o ToString(100 + Len(fl))

\* server.ts:76-82
newUnit(draw, fl) ==
    [ id |-> newId(fl),
      type |-> DispatchTypes[FloorOfRandomTimes(draw.type, Len(DispatchTypes)) + 1],
      destination |-> DispatchDestinations[FloorOfRandomTimes(draw.destination, Len(DispatchDestinations)) + 1],
      status |-> "In Transit",
      eta |-> ToString(FloorOfRandomTimes(draw.eta, 20) + 5) \o " mins" ]

\* mutant: the new unit is put at the end
WithUnitLast(unit, fl) == fl \o <<unit>>

\* server.ts:84   [newUnit, ...fleet]
WithUnitFirst(unit, fl) == <<unit>> \o fl

\* GET /api/logistics/routes
RouteCatalog ==
    << [id |-> "route-alpha", name |-> "Medical Emergency Corridor (Alpha)", distance |-> "8.2 km",
        baseTime |-> 12, riskFactor |-> 10, priorityPenalty |-> 0, color |-> "#10b981", priority |-> "Critical"],
       [id |-> "route-gamma", name |-> "Bypass Expressway (Gamma)", distance |-> "12.4 km",
        baseTime |-> 15, riskFactor |-> 5, priorityPenalty |-> 5, color |-> "#0ea5e9", priority |-> "Critical"],
       [id |-> "route-beta", name |-> "Standard Urban Route (Beta)", distance |-> "7.5 km",
        baseTime |-> 28, riskFactor |-> 80, priorityPenalty |-> 15, color |-> "#f59e0b", priority |-> "Standard"],
       [id |-> "route-delta", name |-> "Residential Backroads (Delta)", distance |-> "6.8 km",
        baseTime |-> 35, riskFactor |-> 40, priorityPenalty |-> 20, color |-> "#64748b", priority |-> "Standard"] >>

----------------------------------------------------------------------------
(* App.tsx: the values derived from data and routes on every render *)

NoData == [null |-> TRUE]

\* mutant: the priority penalty is left out of the objective
scoreRouteNoPenalty(route, d) ==
    LET delayRisk == d.delayRiskScore * route.riskFactor
        objectiveValue == delayRisk + 10000 * route.baseTime
    IN  [ delayRisk |-> delayRisk,
          objectiveValue |-> objectiveValue,
          estTime |-> 10000 * route.baseTime + (delayRisk * 10) ] @@ route

\* mutant: the objective is the delay risk alone
scoreRouteRiskOnly(route, d) ==
    LET delayRisk == d.delayRiskScore * route.riskFactor
        objectiveValue == delayRisk
    IN  [ delayRisk |-> delayRisk,
          objectiveValue |-> objectiveValue,
          estTime |-> 10000 * route.baseTime + (delayRisk * 10) ] @@ route

\* App.tsx:134-144   routes.map(...).filter(Boolean)
scoreRoute(route, d) ==
    LET delayRisk == d.delayRiskScore * route.riskFactor
        objectiveValue == delayRisk + 10000 * (route.baseTime + route.priorityPenalty)
    IN  [ delayRisk |-> delayRisk,
          objectiveValue |-> objectiveValue,
          estTime |-> 10000 * route.baseTime + (delayRisk * 10) ] @@ route

CalculatedRoutes(rs, d) ==
    IF d = NoData THEN <<>>
    ELSE [i \in 1..Len(rs) |-> scoreRoute(rs[i], d)]

\* mutant: the accumulator is kept on a tie as well
KeepPrevOnTie(prev, curr) == prev.objectiveValue <= curr.objectiveValue

\* mutant: the comparison is reversed
KeepPrevIfGreater(prev, curr) == prev.objectiveValue > curr.objectiveValue

\* App.tsx:147   prev.objectiveValue < curr.objectiveValue ? prev : curr
KeepPrev(prev, curr) == prev.objectiveValue < curr.objectiveValue

\* Array.prototype.reduce with an initial value: the callback runs on every
\* element, the first included.  acc and k are positions in cr (the object
\* the accumulator refers to, the element visited).
RECURSIVE Reduce(_, _, _)
Reduce(cr, acc, k) ==
    IF k > Len(cr) THEN acc
    ELSE Reduce(cr, IF KeepPrev(cr[acc], cr[k]) THEN acc ELSE k, k + 1)

\* App.tsx:146-149   the position of recommendedRoute in calculatedRoutes;
\* 0 stands for undefined (reduce over [] returns its initial value,
\* calculatedRoutes[0], which is undefined)
RecommendedIndex(cr) == IF Len(cr) = 0 THEN 0 ELSE Reduce(cr, 1, 1)

\* mutant: the last route with another id is compared, not the first
FindOtherLast(cr, ri) ==
    LET hits == { i \in 1..Len(cr) : ri = 0 \/ cr[i].id # cr[ri].id }
    IN  IF hits = {} THEN 0 ELSE CHOOSE i \in hits : \A j \in hits : i >= j

\* calculatedRoutes.find(r => r.id !== recommendedRoute?.id): its position, 0 if none
FindOther(cr, ri) ==
    LET hits == { i \in 1..Len(cr) : ri = 0 \/ cr[i].id # cr[ri].id }
    IN  IF hits = {} THEN 0 ELSE CHOOSE i \in hits : \A j \in hits : i <= j

\* mutant: Math.floor in place of Math.round
MathFloor(x) == x \div 10000

\* Math.round of a value given in 1/10000: the nearest integer, halves go up
MathRound(x) == (2 * x + 10000) \div 20000

MathMax(a, b) == IF a >= b THEN a ELSE b

\* mutant: a missing comparison route counts as estTime 0 and the operands
\* are swapped: Math.round(recommendedRoute.estTime - (other?.estTime || 0))
TimeSavedAgainstZero(cr) ==
    LET ri == RecommendedIndex(cr)
        ci == FindOther(cr, ri)
    IN  IF ri = 0 THEN 0
        ELSE IF ci = 0 THEN MathMax(0, MathRound(cr[ri].estTime))
        ELSE MathMax(0, MathRound(cr[ci].estTime - cr[ri].estTime))

\* App.tsx:151   Math.max(0, Math.round(find(...)?.estTime - recommendedRoute?.estTime || 0))
\* (undefined - x is NaN, and NaN || 0 is 0)
TimeSaved(cr) ==
    LET ri == RecommendedIndex(cr)
        ci == FindOther(cr, ri)
    IN  IF ri = 0 \/ ci = 0 THEN 0
        ELSE MathMax(0, MathRound(cr[ci].estTime - cr[ri].estTime))

calculatedRoutes == CalculatedRoutes(routes, data)
recommendedIndex == RecommendedIndex(calculatedRoutes)
recommendedRoute == calculatedRoutes[recommendedIndex]
timeSaved == TimeSaved(calculatedRoutes)

----------------------------------------------------------------------------
(* geminiService.ts *)

SectionHeaders ==
    << "### Recommended Route", "### Estimated Time Saved",
       "### Operational Risk Explanation", "### Model Confidence Score" >>

Bold(s) == "**" \o s \o "**"

RiskCritical == "Critical infrastructure congestion detected. Primary transport corridors are experiencing significant throughput degradation."
RiskModerate == "Moderate operational friction identified. Environmental and traffic vectors are converging to create potential delay windows."
RiskStable == "Operational environment is stable. Low risk of delay for critical medical units."
PriorityLifeCritical == " Transport urgency is categorized as 'Life-Critical'. Route selection prioritizes immediate clinical intervention over standard logistics efficiency."
PriorityTimeSensitive == " Transport is categorized as 'Time-Sensitive'. Route selection balances clinical priority with optimal asset utilization."
WeatherClause == " Severe weather conditions are impacting braking distance and visibility, necessitating the use of specialized emergency corridors."
Closing(name) == " The selection of " \o Bold(name) \o " is mathematically optimized to minimize the risk-to-time ratio, ensuring medical integrity is maintained during the transit window."

\* mutant: the thresholds are inclusive
riskAnalysisInclusive(d) ==
    IF d.delayRiskScore >= 70 THEN RiskCritical
    ELSE IF d.delayRiskScore >= 40 THEN RiskModerate
    ELSE RiskStable

\* geminiService.ts:20-28
riskAnalysis(d) ==
    IF d.delayRiskScore > 70 THEN RiskCritical
    ELSE IF d.delayRiskScore > 40 THEN RiskModerate
    ELSE RiskStable

\* mutant: the threshold is inclusive
priorityAnalysisInclusive(d) ==
    IF d.medicalPriorityScore >= 80 THEN PriorityLifeCritical
    ELSE PriorityTimeSensitive

\* geminiService.ts:30-35
priorityAnalysis(d) ==
    IF d.medicalPriorityScore > 80 THEN PriorityLifeCritical
    ELSE PriorityTimeSensitive

\* mutant: the clause is tied to the delay risk tier as well
weatherImpactWhenRisky(d) ==
    IF d.weatherRisk > 5000 /\ d.delayRiskScore > 40 THEN <<WeatherClause>> ELSE <<>>

\* geminiService.ts:37   the clause, or nothing for the empty string
weatherImpact(d) == IF d.weatherRisk > 5000 THEN <<WeatherClause>> ELSE <<>>

\* mutant: the confidence line is the literal the server happens to send
generateRuleBasedExplanationFixedAccuracy(d) ==
    << SectionHeaders[1], Bold(d.recommendedRoute.name),
       SectionHeaders[2], Bold(ToString(d.timeSaved) \o " minutes"),
       SectionHeaders[3], riskAnalysis(d), priorityAnalysis(d) >>
    \o weatherImpact(d)
    \o << Closing(d.recommendedRoute.name),
          SectionHeaders[4], Bold("94.8%") >>

\* geminiService.ts:9-52
generateRuleBasedExplanation(d) ==
    << SectionHeaders[1], Bold(d.recommendedRoute.name),
       SectionHeaders[2], Bold(ToString(d.timeSaved) \o " minutes"),
       SectionHeaders[3], riskAnalysis(d), priorityAnalysis(d) >>
    \o weatherImpact(d)
    \o << Closing(d.recommendedRoute.name),
          SectionHeaders[4], Bold(d.accuracy) >>

\* What an explainLogisticsRisk promise settles with: a string (text), undefined
\* (defined = FALSE), or a rejection.
Fulfilled(text) == [settled |-> "fulfilled", defined |-> TRUE, text |-> text]
FulfilledUndefined == [settled |-> "fulfilled", defined |-> FALSE, text |-> <<>>]
Rejected == [settled |-> "rejected", defined |-> FALSE, text |-> <<>>]

\* What ai.models.generateContent did: not called, resolved with a response
\* whose .text is a string or undefined, or threw.
NoCall == [kind |-> "none", defined |-> FALSE, text |-> <<>>]
Thrown == [kind |-> "throw", defined |-> FALSE, text |-> <<>>]
Response(defined, text) == [kind |-> "response", defined |-> defined, text |-> text]

\* A reply that follows the prompt's "Output Format" (geminiService.ts:95-106)
FormattedReply(d) ==
    << SectionHeaders[1], Bold(d.recommendedRoute.name),
       SectionHeaders[2], Bold(ToString(d.timeSaved) \o " minutes"),
       SectionHeaders[3], "The corridor minimises delay exposure for the transported supply.",
       SectionHeaders[4], Bold(d.accuracy) >>

\* The replies the external service is taken to give: no text, empty text, a
\* reply in the requested format, a reply that ignores the format.
ServiceResponses(d) ==
    { Response(FALSE, <<>>),
      Response(TRUE, <<>>),
      Response(TRUE, FormattedReply(d)),
      Response(TRUE, <<"I am unable to help with that request.">>) }

\* mutant: the catch block rethrows
CatchRethrow(d) == Rejected

\* mutant: the catch block returns the error text
CatchReturnsError(d) == Fulfilled(<<"Gemini Error: fetch failed">>)

\* geminiService.ts:110-113
Catch(d) == Fulfilled(generateRuleBasedExplanation(d))

\* geminiService.ts:54-114, given what the external call does once made
explainLogisticsRisk(key, d, outcome) ==
    IF ~hasApiKey(key) THEN Fulfilled(generateRuleBasedExplanation(d))
    ELSE IF outcome.kind = "throw" THEN Catch(d)
    ELSE IF outcome.defined THEN Fulfilled(outcome.text)
    ELSE FulfilledUndefined

----------------------------------------------------------------------------
(* App.tsx: fetchData *)

NoFormulas == [pc |-> "none"]
DispatchIdle == [pc |-> "idle", last |-> "none"]
FetchIdle == [pc |-> "idle"]
CallIdle == [pc |-> "idle"]

\* App.tsx:109-110, 114-120   the mount, or a tick of the 10 s interval
FetchData ==
    /\ fetch.pc = "idle"
    /\ fetch' = [pc |-> "pending", statusRes |-> <<>>, routesRes |-> <<>>, fleetRes |-> <<>>]
    /\ UNCHANGED <<apiKey, dispatchVars, serverVars, clientData, analysisVars>>

\* server.ts:25-65
GetStatus ==
    /\ fetch.pc = "pending"
    /\ fetch.statusRes = <<>>
    /\ \E draw \in StatusDraws :
         /\ formulas' = Formulas(SubMetrics(draw))
         /\ fetch' = [fetch EXCEPT !.statusRes = <<StatusPayload(draw, srvFleet)>>]
    /\ UNCHANGED <<apiKey, dispatchVars, srvFleet, clientData, analysisVars>>

\* server.ts:88-131
GetRoutes ==
    /\ fetch.pc = "pending"
    /\ fetch.routesRes = <<>>
    /\ fetch' = [fetch EXCEPT !.routesRes = <<RouteCatalog>>]
    /\ UNCHANGED <<apiKey, dispatchVars, serverVars, clientData, analysisVars>>

\* server.ts:67-69
GetFleet ==
    /\ fetch.pc = "pending"
    /\ fetch.fleetRes = <<>>
    /\ fetch' = [fetch EXCEPT !.fleetRes = <<srvFleet>>]
    /\ UNCHANGED <<apiKey, dispatchVars, serverVars, clientData, analysisVars>>

\* App.tsx:121-127
FetchDataResolve ==
    /\ fetch.pc = "pending"
    /\ fetch.statusRes # <<>> /\ fetch.routesRes # <<>> /\ fetch.fleetRes # <<>>
    /\ data' = fetch.statusRes[1]
    /\ routes' = fetch.routesRes[1]
    /\ fleet' = fetch.fleetRes[1]
    /\ fetch' = FetchIdle
    /\ UNCHANGED <<apiKey, dispatchVars, serverVars, analysisVars>>

\* mutant: the status body is applied as soon as it is there, even when the refresh fails
FetchDataFailPartial ==
    /\ fetch.pc = "pending"
    /\ data' = IF fetch.statusRes # <<>> THEN fetch.statusRes[1] ELSE data
    /\ fetch' = FetchIdle
    /\ UNCHANGED <<apiKey, dispatchVars, serverVars, routes, fleet, analysisVars>>

\* App.tsx:128-130   a request or a body failed: the catch block only logs
FetchDataFail ==
    /\ fetch.pc = "pending"
    /\ fetch' = FetchIdle
    /\ UNCHANGED <<apiKey, dispatchVars, serverVars, clientData, analysisVars>>

----------------------------------------------------------------------------
(* App.tsx: handleDispatch, with the server's dispatch endpoint *)

DispatchDone(how) == [pc |-> "idle", last |-> how]

\* App.tsx:166-169   the click; the button is disabled while isDispatching
HandleDispatch ==
    /\ ~isDispatching
    /\ dispatch.pc = "idle"
    /\ Len(srvFleet) < Len(InitialFleet) + MaxDispatches
    /\ isDispatching' = TRUE
    /\ dispatch' = [pc |-> "posting"]
    /\ UNCHANGED <<apiKey, serverVars, clientData, analysisVars, fetch>>

\* server.ts:71-86 answers the POST; App.tsx:170-171: res.ok, so fetchData()
\* is called and sends its three requests
PostDispatch ==
    /\ dispatch.pc = "posting"
    /\ \E draw \in DispatchDraws :
         LET unit == newUnit(draw, srvFleet)
         IN  /\ srvFleet' = WithUnitFirst(unit, srvFleet)
             /\ dispatch' = [pc |-> "refreshing", ok |-> TRUE, body |-> unit,
                             statusRes |-> <<>>, routesRes |-> <<>>, fleetRes |-> <<>>]
    /\ UNCHANGED <<apiKey, formulas, isDispatching, clientData, analysisVars, fetch>>

\* mutant: a response that is not ok is followed by the refresh as well
PostNotOkRefreshes ==
    /\ dispatch.pc = "posting"
    /\ dispatch' = [pc |-> "refreshing", ok |-> FALSE, body |-> <<>>,
                    statusRes |-> <<>>, routesRes |-> <<>>, fleetRes |-> <<>>]
    /\ UNCHANGED <<apiKey, serverVars, isDispatching, clientData, analysisVars, fetch>>

\* App.tsx:170, 175-177   the response is not ok (it did not come from the
\* handler): no refresh, finally resets the flag
PostNotOk ==
    /\ dispatch.pc = "posting"
    /\ isDispatching' = FALSE
    /\ dispatch' = DispatchDone("notok")
    /\ UNCHANGED <<apiKey, serverVars, clientData, analysisVars, fetch>>

\* App.tsx:173-177   fetch() rejects before the request reaches the server:
\* the catch block logs, finally resets the flag
PostThrow ==
    /\ dispatch.pc = "posting"
    /\ isDispatching' = FALSE
    /\ dispatch' = DispatchDone("thrown")
    /\ UNCHANGED <<apiKey, serverVars, clientData, analysisVars, fetch>>

\* server.ts:25-65, for the fetchData that handleDispatch awaits
RefreshGetStatus ==
    /\ dispatch.pc = "refreshing"
    /\ dispatch.statusRes = <<>>
    /\ \E draw \in StatusDraws :
         /\ formulas' = Formulas(SubMetrics(draw))
         /\ dispatch' = [dispatch EXCEPT !.statusRes = <<StatusPayload(draw, srvFleet)>>]
    /\ UNCHANGED <<apiKey, srvFleet, isDispatching, clientData, analysisVars, fetch>>

\* server.ts:88-131, for the fetchData that handleDispatch awaits
RefreshGetRoutes ==
    /\ dispatch.pc = "refreshing"
    /\ dispatch.routesRes = <<>>
    /\ dispatch' = [dispatch EXCEPT !.routesRes = <<RouteCatalog>>]
    /\ UNCHANGED <<apiKey, serverVars, isDispatching, clientData, analysisVars, fetch>>

\* server.ts:67-69, for the fetchData that handleDispatch awaits
RefreshGetFleet ==
    /\ dispatch.pc = "refreshing"
    /\ dispatch.fleetRes = <<>>
    /\ dispatch' = [dispatch EXCEPT !.fleetRes = <<srvFleet>>]
    /\ UNCHANGED <<apiKey, serverVars, isDispatching, clientData, analysisVars, fetch>>

\* App.tsx:121-127 then 175-177   the awaited fetchData sets the three values
\* and returns; finally resets the flag
RefreshResolve ==
    /\ dispatch.pc = "refreshing"
    /\ dispatch.statusRes # <<>> /\ dispatch.routesRes # <<>> /\ dispatch.fleetRes # <<>>
    /\ data' = dispatch.statusRes[1]
    /\ routes' = dispatch.routesRes[1]
    /\ fleet' = dispatch.fleetRes[1]
    /\ isDispatching' = FALSE
    /\ dispatch' = DispatchDone("refreshed")
    /\ UNCHANGED <<apiKey, serverVars, analysisVars, fetch>>

\* App.tsx:128-130 then 175-177   the awaited fetchData caught a failure and
\* returned; finally resets the flag
RefreshFail ==
    /\ dispatch.pc = "refreshing"
    /\ isDispatching' = FALSE
    /\ dispatch' = DispatchDone("refreshfailed")
    /\ UNCHANGED <<apiKey, serverVars, clientData, analysisVars, fetch>>

----------------------------------------------------------------------------
(* App.tsx: handleAnalyze *)

\* App.tsx:156-161   { ...data, recommendedRoute, timeSaved, accuracy: data.accuracy }
AnalysisInput ==
    [ recommendedRoute |-> recommendedRoute,
      timeSaved |-> timeSaved,
      accuracy |-> data.accuracy ] @@ data

\* App.tsx:162   explanation || ''
OrEmpty(result) == IF result.defined THEN result.text ELSE <<>>

\* App.tsx:154   the early return.  Both buttons are disabled while isAnalyzing.
HandleAnalyzeReturn ==
    /\ ~isAnalyzing
    /\ call.pc = "idle"
    /\ (data = NoData \/ recommendedIndex = 0)
    /\ lastRequest' = [outcome |-> "returned", candidates |-> Len(calculatedRoutes)]
    /\ UNCHANGED <<apiKey, dispatchVars, serverVars, clientData, aiExplanation, isAnalyzing, call, fetch>>

\* mutant: the buttons stay enabled while an analysis runs
HandleAnalyzeButtonEnabled ==
    /\ data # NoData /\ recommendedIndex # 0
    /\ isAnalyzing' = TRUE
    /\ call' = IF hasApiKey(apiKey)
               THEN [pc |-> "awaiting", input |-> AnalysisInput, path |-> "external",
                     extCalls |-> 1, fallbacks |-> 0, result |-> FulfilledUndefined]
               ELSE [pc |-> "resolved", input |-> AnalysisInput, path |-> "nokey",
                     extCalls |-> 0, fallbacks |-> 1,
                     result |-> explainLogisticsRisk(apiKey, AnalysisInput, NoCall)]
    /\ lastRequest' = [outcome |-> "started", candidates |-> Len(calculatedRoutes)]
    /\ UNCHANGED <<apiKey, dispatchVars, serverVars, clientData, aiExplanation, fetch>>

\* App.tsx:153-161 with geminiService.ts:54-108: up to the first await that suspends
HandleAnalyze ==
    /\ ~isAnalyzing
    /\ call.pc = "idle"
    /\ data # NoData /\ recommendedIndex # 0
    /\ isAnalyzing' = TRUE
    /\ call' = IF hasApiKey(apiKey)
               THEN [pc |-> "awaiting", input |-> AnalysisInput, path |-> "external",
                     extCalls |-> 1, fallbacks |-> 0, result |-> FulfilledUndefined]
               ELSE [pc |-> "resolved", input |-> AnalysisInput, path |-> "nokey",
                     extCalls |-> 0, fallbacks |-> 1,
                     result |-> explainLogisticsRisk(apiKey, AnalysisInput, NoCall)]
    /\ lastRequest' = [outcome |-> "started", candidates |-> Len(calculatedRoutes)]
    /\ UNCHANGED <<apiKey, dispatchVars, serverVars, clientData, aiExplanation, fetch>>

\* geminiService.ts:64-109   generateContent resolves
ServiceRespond ==
    /\ call.pc = "awaiting"
    /\ \E resp \in ServiceResponses(call.input) :
         call' = [call EXCEPT !.pc = "resolved",
                              !.result = explainLogisticsRisk(apiKey, call.input, resp)]
    /\ UNCHANGED <<apiKey, dispatchVars, serverVars, clientData, aiExplanation, isAnalyzing, lastRequest, fetch>>

\* mutant: the catch block calls the external service a second time
ServiceThrowRetry ==
    /\ call.pc = "awaiting"
    /\ call.extCalls = 1
    /\ call' = [call EXCEPT !.extCalls = 2]
    /\ UNCHANGED <<apiKey, dispatchVars, serverVars, clientData, aiExplanation, isAnalyzing, lastRequest, fetch>>

\* geminiService.ts:110-113   generateContent throws
ServiceThrow ==
    /\ call.pc = "awaiting"
    /\ call' = [call EXCEPT !.pc = "resolved", !.path = "catch", !.fallbacks = @ + 1,
                            !.result = explainLogisticsRisk(apiKey, call.input, Thrown)]
    /\ UNCHANGED <<apiKey, dispatchVars, serverVars, clientData, aiExplanation, isAnalyzing, lastRequest, fetch>>

\* mutant: setIsAnalyzing(false) is left out
AnalyzeResumeStaysBusy ==
    /\ call.pc = "resolved"
    /\ aiExplanation' = OrEmpty(call.result)
    /\ lastRequest' = [lastRequest EXCEPT !.outcome = "completed"]
    /\ call' = CallIdle
    /\ UNCHANGED <<apiKey, dispatchVars, serverVars, clientData, isAnalyzing, fetch>>

\* App.tsx:162-163   the continuation after the await; a rejection skips both setters
AnalyzeResume ==
    /\ call.pc = "resolved"
    /\ IF call.result.settled = "fulfilled"
       THEN /\ aiExplanation' = OrEmpty(call.result)
            /\ isAnalyzing' = FALSE
            /\ lastRequest' = [lastRequest EXCEPT !.outcome = "completed"]
       ELSE /\ lastRequest' = [lastRequest EXCEPT !.outcome = "rejected"]
            /\ UNCHANGED <<aiExplanation, isAnalyzing>>
    /\ call' = CallIdle
    /\ UNCHANGED <<apiKey, dispatchVars, serverVars, clientData, fetch>>

----------------------------------------------------------------------------
(* The application *)

Init ==
    /\ apiKey \in KeyValues
    /\ srvFleet = InitialFleet
    /\ formulas = NoFormulas
    /\ data = NoData
    /\ routes = <<>>
    /\ fleet = <<>>
    /\ aiExplanation = <<>>
    /\ isAnalyzing = FALSE
    /\ fetch = FetchIdle
    /\ isDispatching = FALSE
    /\ dispatch = DispatchIdle
    /\ call = CallIdle
    /\ lastRequest = [outcome |-> "none", candidates |-> 0]

Next ==
    \/ FetchData
    \/ GetStatus
    \/ GetRoutes
    \/ GetFleet
    \/ FetchDataResolve
    \/ FetchDataFail
    \/ HandleAnalyzeReturn
    \/ HandleAnalyze
    \/ ServiceRespond
    \/ ServiceThrow
    \/ AnalyzeResume

Spec == Init /\ [][Next]_vars

\* What the code's scheduling guarantees: the interval keeps ticking, the
\* Express handlers answer every request they receive, and the event loop runs
\* a continuation whose promise has settled.  Nothing obliges the external
\* service to answer, or the user to click.
FairSpec ==
    /\ Spec
    /\ WF_vars(FetchData)
    /\ WF_vars(GetStatus) /\ WF_vars(GetRoutes) /\ WF_vars(GetFleet)
    /\ WF_vars(FetchDataResolve)
    /\ WF_vars(AnalyzeResume)

----------------------------------------------------------------------------
(* The refresh and the dispatch, without the analysis *)

DispatchInit ==
    /\ Init
    /\ apiKey = KeyUnset

DispatchNext ==
    \/ FetchData
    \/ GetStatus
    \/ GetRoutes
    \/ GetFleet
    \/ FetchDataResolve
    \/ FetchDataFail
    \/ HandleDispatch
    \/ PostDispatch
    \/ PostNotOk
    \/ PostThrow
    \/ RefreshGetStatus
    \/ RefreshGetRoutes
    \/ RefreshGetFleet
    \/ RefreshResolve
    \/ RefreshFail

DispatchSpec == DispatchInit /\ [][DispatchNext]_vars

\* A step of the handleDispatch invocation in flight: the POST settles, a
\* request of the awaited fetchData is answered, or that fetchData returns.
DispatchStep ==
    \/ PostDispatch \/ PostNotOk \/ PostThrow
    \/ RefreshGetStatus \/ RefreshGetRoutes \/ RefreshGetFleet
    \/ RefreshResolve \/ RefreshFail

\* The browser settles the POST one way or another, the Express handlers
\* answer the requests of the awaited fetchData, and the event loop runs the
\* continuations: an invocation in flight keeps moving.  Nothing obliges the
\* user to click.
FairDispatchSpec == DispatchSpec /\ WF_vars(DispatchStep)

----------------------------------------------------------------------------
(* The route selector on arbitrary candidate lists *)

\* baseTime, riskFactor, priorityPenalty of the candidates drawn: at score 0.5
\* they give objective values 2, 1.05, 2, 2.05 and estimated times 1, 1.5, 2, 2.5
RouteShapes == { <<1, 0, 1>>, <<1, 10, 0>>, <<2, 0, 0>>, <<2, 10, 0>> }

RouteSamples ==
    { [id |-> i, name |-> "Route " \o i, distance |-> "1.0 km",
       baseTime |-> s[1], riskFactor |-> s[2], priorityPenalty |-> s[3],
       color |-> "#000000", priority |-> "Standard"] :
         i \in {"r1", "r2", "r3"}, s \in RouteShapes }

ScoreSamples == {0, 50}

SelInit ==
    /\ apiKey = KeyUnset
    /\ srvFleet = InitialFleet
    /\ formulas = NoFormulas
    /\ \E s \in ScoreSamples :
         data = [StatusPayload([traffic |-> 0, weather |-> 0, incident |-> 0,
                                emergency |-> 0, time |-> 0, supply |-> 0], InitialFleet)
                   EXCEPT !.delayRiskScore = s]
    /\ routes \in UNION { [1..n -> RouteSamples] : n \in 0..MaxRoutes }
    /\ fleet = <<>>
    /\ aiExplanation = <<>>
    /\ isAnalyzing = FALSE
    /\ fetch = FetchIdle
    /\ isDispatching = FALSE
    /\ dispatch = DispatchIdle
    /\ call = CallIdle
    /\ lastRequest = [outcome |-> "none", candidates |-> 0]

SelNext ==
    \/ HandleAnalyzeReturn
    \/ HandleAnalyze
    \/ AnalyzeResume

SelSpec == SelInit /\ [][SelNext]_vars

----------------------------------------------------------------------------
(* The explanation service on arbitrary telemetry *)

\* delayRiskScore, medicalPriorityScore (1/100) and weatherRisk (1/10000) drawn:
\* the thresholds, their neighbours, and the values of the documented examples
DelayRiskSamples == {20, 40, 41, 70, 71, 85}
PrioritySamples == {30, 80, 81}
WeatherSamples == {1000, 5000, 5001}
AccuracySamples == {"94.8%", "n/a"}

ExplRouteLists == { RouteCatalog, <<RouteCatalog[3], RouteCatalog[2]>> }

ExplInit ==
    /\ apiKey \in {KeyUnset, KeyReal}
    /\ srvFleet = InitialFleet
    /\ formulas = NoFormulas
    /\ \E dr \in DelayRiskSamples, mp \in PrioritySamples,
          wr \in WeatherSamples, acc \in AccuracySamples :
         data = [StatusPayload([traffic |-> 0, weather |-> 0, incident |-> 0,
                                emergency |-> 0, time |-> 0, supply |-> 0], InitialFleet)
                   EXCEPT !.delayRiskScore = dr, !.medicalPriorityScore = mp,
                          !.weatherRisk = wr, !.accuracy = acc]
    /\ routes \in ExplRouteLists
    /\ fleet = <<>>
    /\ aiExplanation = <<>>
    /\ isAnalyzing = FALSE
    /\ fetch = FetchIdle
    /\ isDispatching = FALSE
    /\ dispatch = DispatchIdle
    /\ call = CallIdle
    /\ lastRequest = [outcome |-> "none", candidates |-> 0]

ExplNext ==
    \/ HandleAnalyze
    \/ ServiceRespond
    \/ ServiceThrow
    \/ AnalyzeResume

ExplSpec == ExplInit /\ [][ExplNext]_vars

----------------------------------------------------------------------------
(* The two weighted sums on arbitrary sub-metrics in [0,1] *)

\* values of a sub-metric in [0,1], in 1/10000
UnitSamples == {0, 5000, 10000}

UnitInputs ==
    [ trafficRisk : UnitSamples, weatherRisk : UnitSamples,
      historicalDelayRate : UnitSamples, incidentDensity : UnitSamples,
      emergencyLevel : UnitSamples, timeSensitivity : UnitSamples,
      criticalSupplyFactor : UnitSamples ]

\* server.ts:37-48 on sub-metrics that were drawn beforehand
ApplyFormulas ==
    /\ formulas.pc = "inputs"
    /\ formulas' = Formulas(formulas.in)
    /\ UNCHANGED <<apiKey, dispatchVars, srvFleet, clientData, analysisVars, fetch>>

ScoreInit ==
    /\ apiKey = KeyUnset
    /\ srvFleet = InitialFleet
    /\ \E m \in UnitInputs : formulas = [pc |-> "inputs", in |-> m]
    /\ data = NoData
    /\ routes = <<>>
    /\ fleet = <<>>
    /\ aiExplanation = <<>>
    /\ isAnalyzing = FALSE
    /\ fetch = FetchIdle
    /\ isDispatching = FALSE
    /\ dispatch = DispatchIdle
    /\ call = CallIdle
    /\ lastRequest = [outcome |-> "none", candidates |-> 0]

ScoreNext == ApplyFormulas

ScoreSpec == ScoreInit /\ [][ScoreNext]_vars

----------------------------------------------------------------------------
(* The served route catalog under every delayRiskScore in [0,1] *)

\* delayRiskScore in [0,1], in 1/100 as toFixed(2) leaves it
UnitScores == 0..100

CatalogInit ==
    /\ apiKey = KeyUnset
    /\ srvFleet = InitialFleet
    /\ formulas = NoFormulas
    /\ \E s \in UnitScores :
         data = [StatusPayload([traffic |-> 0, weather |-> 0, incident |-> 0,
                                emergency |-> 0, time |-> 0, supply |-> 0], InitialFleet)
                   EXCEPT !.delayRiskScore = s]
    /\ routes = RouteCatalog
    /\ fleet = <<>>
    /\ aiExplanation = <<>>
    /\ isAnalyzing = FALSE
    /\ fetch = FetchIdle
    /\ isDispatching = FALSE
    /\ dispatch = DispatchIdle
    /\ call = CallIdle
    /\ lastRequest = [outcome |-> "none", candidates |-> 0]

CatalogNext == HandleAnalyze \/ AnalyzeResume

CatalogSpec == CatalogInit /\ [][CatalogNext]_vars

----------------------------------------------------------------------------
(* Route selection (SelSpec) *)

Positions(cr) == 1..Len(cr)

MinPositions(cr) ==
    { i \in Positions(cr) : \A j \in Positions(cr) : cr[i].objectiveValue <= cr[j].objectiveValue }

FirstOf(S) == CHOOSE i \in S : \A j \in S : i <= j
LastOf(S) == CHOOSE i \in S : \A j \in S : i >= j

TiedAtMinimum(cr) == Cardinality(MinPositions(cr)) >= 2

\* the analysis in flight was handed the recommendation and timeSaved of this render
HandedOver ==
    /\ call.pc = "resolved"
    /\ call.input.recommendedRoute = recommendedRoute
    /\ call.input.timeSaved = timeSaved

C2_RecommendedIsMinimum ==
    Len(calculatedRoutes) > 0 =>
        /\ recommendedIndex \in Positions(calculatedRoutes)
        /\ \A i \in Positions(calculatedRoutes) :
             ~(calculatedRoutes[i].objectiveValue < recommendedRoute.objectiveValue)
        /\ call.pc # "idle" =>
             \E i \in Positions(calculatedRoutes) :
                /\ call.input.recommendedRoute = calculatedRoutes[i]
                /\ \A j \in Positions(calculatedRoutes) :
                     calculatedRoutes[i].objectiveValue <= calculatedRoutes[j].objectiveValue

C2_Witness ==
    /\ Len(calculatedRoutes) = MaxRoutes
    /\ HandedOver
    /\ recommendedIndex = 2
    /\ calculatedRoutes[1].objectiveValue > recommendedRoute.objectiveValue
    /\ calculatedRoutes[MaxRoutes].objectiveValue > recommendedRoute.objectiveValue

DistinctIds(cr) == Cardinality({ cr[i].id : i \in Positions(cr) }) >= 2

\* the first position whose route id differs from the id at position ri
FirstOtherId(cr, ri) == FirstOf({ i \in Positions(cr) : cr[i].id # cr[ri].id })

\* n is max(0, round(x)) for x given in 1/10000, halves rounding up:
\* n = 0 when x < 1/2, else n - 1/2 <= x < n + 1/2
IsMax0Round(n, x) ==
    /\ n \in Nat
    /\ (n = 0) => (2 * x < 10000)
    /\ (n > 0) => ((2 * n - 1) * 10000 <= 2 * x /\ 2 * x < (2 * n + 1) * 10000)

\* C10: with at least two distinct route ids in the list, timeSaved is the
\* non-negative integer max(0, round(estTime(c) - estTime(recommended))), c
\* being the first route in list order whose id differs from the recommended one's.
C10_TimeSavedFirstOther ==
    DistinctIds(calculatedRoutes) =>
        LET c == FirstOtherId(calculatedRoutes, recommendedIndex)
        IN  /\ IsMax0Round(timeSaved, calculatedRoutes[c].estTime - recommendedRoute.estTime)
            /\ call.pc # "idle" => call.input.timeSaved = timeSaved

C10_Witness ==
    /\ DistinctIds(calculatedRoutes)
    /\ HandedOver
    /\ LET c == FirstOtherId(calculatedRoutes, recommendedIndex)
       IN  /\ c > 1
           /\ 2 * (calculatedRoutes[c].estTime - recommendedRoute.estTime) = 3 * 10000
           /\ timeSaved = 2

\* the positions other than the recommended one whose objectiveValue is the
\* lowest among them: the next-best alternatives
NextBestPositions(cr, ri) ==
    LET others == Positions(cr) \ {ri}
    IN  { i \in others : \A j \in others : cr[i].objectiveValue <= cr[j].objectiveValue }

\* route ids are unique, as the data model has them
UniqueIds(cr) == \A i, j \in Positions(cr) : cr[i].id = cr[j].id => i = j

OtherIdPositions(cr, ri) == { i \in Positions(cr) : cr[i].id # cr[ri].id }

\* C11 (as claimed): timeSaved is computed against a next-best alternative, a
\* route with the lowest objectiveValue among the routes other than the
\* recommended one, wherever that route stands in the list.
C11_AgainstNextBest ==
    (Len(calculatedRoutes) >= 2 /\ UniqueIds(calculatedRoutes) /\ call.pc # "idle") =>
        \E n \in NextBestPositions(calculatedRoutes, recommendedIndex) :
            IsMax0Round(call.input.timeSaved,
                        calculatedRoutes[n].estTime - recommendedRoute.estTime)

\* C11 (amended): timeSaved is computed against the first route in list order
\* whose id differs from the recommended route's, whatever its objectiveValue,
\* and is 0 when no route has another id.
C11_AgainstFirstOtherId ==
    Len(calculatedRoutes) >= 1 =>
        LET others == OtherIdPositions(calculatedRoutes, recommendedIndex)
        IN  /\ others = {} => timeSaved = 0
            /\ others # {} =>
                  IsMax0Round(timeSaved,
                              calculatedRoutes[FirstOf(others)].estTime - recommendedRoute.estTime)
            /\ call.pc # "idle" => call.input.timeSaved = timeSaved

\* the first route with another id is not a next-best alternative and the two
\* comparisons give different values
C11_Witness ==
    /\ HandedOver
    /\ Len(calculatedRoutes) = 3
    /\ UniqueIds(calculatedRoutes)
    /\ LET others == OtherIdPositions(calculatedRoutes, recommendedIndex)
           best == NextBestPositions(calculatedRoutes, recommendedIndex)
       IN  /\ others # {}
           /\ FirstOf(others) \notin best
           /\ timeSaved = 1
           /\ \A n \in best :
                 IsMax0Round(0, calculatedRoutes[n].estTime - recommendedRoute.estTime)

\* C12: for a list of exactly one route the recommended route is that route
\* and timeSaved is 0.
C12_SingleRoute ==
    Len(calculatedRoutes) = 1 =>
        /\ recommendedIndex = 1
        /\ recommendedRoute = scoreRoute(routes[1], data)
        /\ timeSaved = 0
        /\ call.pc # "idle" =>
              /\ call.input.recommendedRoute = calculatedRoutes[1]
              /\ call.input.timeSaved = 0

C12_Witness ==
    /\ Len(routes) = 1
    /\ HandedOver
    /\ call.input.recommendedRoute.id = routes[1].id
    /\ call.input.recommendedRoute.estTime >= 2 * 10000
    /\ call.input.timeSaved = 0

----------------------------------------------------------------------------
(* Analysis and explanation (Spec, FairSpec) *)

NoCredential == apiKey \in {KeyUnset, KeyEmpty, KeyPlaceholder}

HasAllSections(text) ==
    \A h \in 1..Len(SectionHeaders) : \E i \in 1..Len(text) : text[i] = SectionHeaders[h]

\* C3 (as claimed): an analysis requested while the candidate list is empty
\* ends with an explicit "no candidates" error, not with a silent return.
C3_EmptyCandidatesSignalError ==
    (lastRequest.outcome # "none" /\ lastRequest.candidates = 0) =>
        lastRequest.outcome = "error"

\* C4: with a credential configured, an external call that throws makes
\* explainLogisticsRisk fulfil with the rule-based report for the same input;
\* no analysis ends in a rejection and the error is not what is returned.
C4_ThrowYieldsFallback ==
    /\ (call.pc = "resolved" /\ call.path = "catch") =>
          /\ call.result.settled = "fulfilled"
          /\ call.result.defined
          /\ call.result.text = generateRuleBasedExplanation(call.input)
    /\ lastRequest.outcome # "rejected"

C4_Witness ==
    /\ apiKey = KeyReal
    /\ call.pc = "resolved"
    /\ call.path = "catch"
    /\ call.extCalls = 1
    /\ call.result.text[1] = SectionHeaders[1]

\* C5: with the credential unset, empty or the placeholder, no invocation
\* calls the external service and each returns the rule-based report.
C5_NoCredentialNoCall ==
    NoCredential =>
        (call.pc # "idle" =>
            /\ call.extCalls = 0
            /\ call.pc = "resolved"
            /\ call.path = "nokey"
            /\ call.result = Fulfilled(generateRuleBasedExplanation(call.input)))

C5_Witness ==
    /\ apiKey = KeyPlaceholder
    /\ call.pc = "resolved"
    /\ call.extCalls = 0
    /\ HasAllSections(call.result.text)

\* C6 (as claimed): after a completed analysis the report held for display is
\* never blank, an empty or missing reply being replaced by the fallback.
C6_ReportNeverBlank ==
    lastRequest.outcome = "completed" => aiExplanation # <<>>

\* C7 (as claimed): every analysis that was triggered eventually completes,
\* even if the external service never responds.
C7_AnalysisCompletes == isAnalyzing ~> ~isAnalyzing

\* C8 (as claimed): every report explainLogisticsRisk returns carries all four
\* section headers, whatever the external service replied.
C8_AllFourSections ==
    call.pc = "resolved" => HasAllSections(call.result.text)

\* C9: the report returned when the external call throws is the report the
\* same input gets under every configuration without a credential.
C9_ThrowSameAsNoCredential ==
    (call.pc = "resolved" /\ call.path = "catch") =>
        \A k \in {KeyUnset, KeyEmpty, KeyPlaceholder} :
            call.result = explainLogisticsRisk(k, call.input, NoCall)

C9_Witness ==
    /\ call.pc = "resolved"
    /\ call.path = "catch"
    /\ call.input.delayRiskScore > 40
    /\ call.result = explainLogisticsRisk(KeyUnset, call.input, NoCall)

----------------------------------------------------------------------------
(* The fallback report (ExplSpec) *)

\* an invocation has returned the rule-based report: no credential, or the
\* external call threw
FallbackReturned ==
    /\ call.pc = "resolved"
    /\ call.path \in {"nokey", "catch"}

Contains(text, line) == \E i \in 1..Len(text) : text[i] = line

\* C13: the fallback report carries the critical narrative exactly when
\* delayRiskScore > 0.7, the moderate one exactly when 0.4 < delayRiskScore <= 0.7,
\* the stable one exactly when delayRiskScore <= 0.4, and so exactly one of them.
C13_RiskTier ==
    FallbackReturned =>
        LET t == call.result.text
            dr == call.input.delayRiskScore
        IN  /\ Contains(t, RiskCritical) <=> (dr > 70)
            /\ Contains(t, RiskModerate) <=> (dr > 40 /\ dr <= 70)
            /\ Contains(t, RiskStable) <=> (dr <= 40)
            /\ Cardinality({ n \in {RiskCritical, RiskModerate, RiskStable} : Contains(t, n) }) = 1

C13_Witness ==
    /\ FallbackReturned
    /\ call.path = "catch"
    /\ call.input.delayRiskScore = 70
    /\ Contains(call.result.text, RiskModerate)

\* C14: the fallback report uses the 'Life-Critical' framing exactly when
\* medicalPriorityScore > 0.8 and the 'Time-Sensitive' framing otherwise, 0.8
\* included; exactly one of the two appears.
C14_PriorityTier ==
    FallbackReturned =>
        LET t == call.result.text
            mp == call.input.medicalPriorityScore
        IN  /\ Contains(t, PriorityLifeCritical) <=> (mp > 80)
            /\ Contains(t, PriorityTimeSensitive) <=> (mp <= 80)
            /\ Contains(t, PriorityLifeCritical) # Contains(t, PriorityTimeSensitive)

C14_Witness ==
    /\ FallbackReturned
    /\ call.input.medicalPriorityScore = 80
    /\ Contains(call.result.text, PriorityTimeSensitive)
    /\ ~Contains(call.result.text, PriorityLifeCritical)

\* C15: the fallback report contains the weather clause if and only if
\* weatherRisk > 0.5, whatever delayRiskScore and medicalPriorityScore are.
C15_WeatherClause ==
    FallbackReturned =>
        (Contains(call.result.text, WeatherClause) <=> (call.input.weatherRisk > 5000))

C15_Witness ==
    /\ FallbackReturned
    /\ call.input.weatherRisk = 5001
    /\ call.input.delayRiskScore <= 40
    /\ call.input.medicalPriorityScore <= 80
    /\ Contains(call.result.text, WeatherClause)

IsHeading(line) == Len(line) >= 3 /\ SubSeq(line, 1, 3) = "###"

Headings(text) == SelectSeq(text, IsHeading)

PositionOf(text, line) == CHOOSE i \in 1..Len(text) : text[i] = line

\* C16: a fallback report has exactly the four '###' headings, in the order
\* Recommended Route, Estimated Time Saved, Operational Risk Explanation, Model
\* Confidence Score; the first section and the closing sentence name the
\* recommended route passed in, the second section carries the timeSaved passed
\* in and the last one the accuracy string passed in.
C16_FourSectionsInOrder ==
    FallbackReturned =>
        LET t == call.result.text
            d == call.input
        IN  /\ Headings(t) = SectionHeaders
            /\ t[1] = SectionHeaders[1]
            /\ t[2] = Bold(d.recommendedRoute.name)
            /\ t[3] = SectionHeaders[2]
            /\ t[4] = Bold(ToString(d.timeSaved) \o " minutes")
            /\ t[5] = SectionHeaders[3]
            /\ t[Len(t) - 2] = Closing(d.recommendedRoute.name)
            /\ t[Len(t) - 1] = SectionHeaders[4]
            /\ t[Len(t)] = Bold(d.accuracy)

C16_Witness ==
    /\ FallbackReturned
    /\ call.input.accuracy = "n/a"
    /\ call.input.recommendedRoute.id = "route-gamma"
    /\ call.input.timeSaved = 15
    /\ call.input.weatherRisk > 5000
    /\ Len(call.result.text) = 11
    /\ call.result.text[Len(call.result.text)] = "**n/a**"

----------------------------------------------------------------------------
(* The server's scores (ScoreSpec, Spec) *)

InUnitInterval(m) == \A f \in DOMAIN m : m[f] >= 0 /\ m[f] <= 10000

\* C17: for sub-metrics in [0,1] the two weighted sums lie in [0,1].
C17_ScoresInUnitInterval ==
    (formulas.pc = "scores" /\ InUnitInterval(formulas.in)) =>
        /\ formulas.delayRiskScore >= 0
        /\ formulas.delayRiskScore <= 10 * 10000
        /\ formulas.medicalPriorityScore >= 0
        /\ formulas.medicalPriorityScore <= 10 * 10000

C17_Witness ==
    /\ formulas.pc = "scores"
    /\ \A f \in DOMAIN formulas.in : formulas.in[f] = 10000
    /\ formulas.delayRiskScore = 10 * 10000
    /\ formulas.medicalPriorityScore = 10 * 10000

\* C18 (as claimed): the delayRiskScore that scores the routes is the
\* unrounded weighted sum of the four risk inputs of the same payload:
\* delayRisk = (0.4 t + 0.3 w + 0.2 h + 0.1 i) * riskFactor for every route.
C18_ScoredWithUnroundedSum ==
    data # NoData =>
        \A i \in 1..Len(calculatedRoutes) :
            calculatedRoutes[i].delayRisk * 1000 = delayRiskScoreOf(data) * routes[i].riskFactor

----------------------------------------------------------------------------
(* Scored routes (SelSpec) and the served catalog (CatalogSpec) *)

ScoredFields == {"delayRisk", "objectiveValue", "estTime"}

\* C19: every scored route has delayRisk = delayRiskScore * riskFactor,
\* objectiveValue = delayRisk + baseTime + priorityPenalty and an estimated
\* time of baseTime + delayRisk * 10, and carries every field of its route
\* unchanged; the route handed to the analysis is one of these.
C19_ScoredRoute ==
    data # NoData =>
        /\ Len(calculatedRoutes) = Len(routes)
        /\ \A i \in 1..Len(routes) :
             LET sr == calculatedRoutes[i]
                 r == routes[i]
             IN  /\ sr.delayRisk = data.delayRiskScore * r.riskFactor
                 /\ sr.objectiveValue = sr.delayRisk + 10000 * r.baseTime + 10000 * r.priorityPenalty
                 /\ sr.estTime = 10000 * r.baseTime + sr.delayRisk * 10
                 /\ DOMAIN sr = DOMAIN r \cup ScoredFields
                 /\ \A f \in DOMAIN r : sr[f] = r[f]
        /\ call.pc # "idle" =>
             \E i \in 1..Len(routes) :
                LET sr == call.input.recommendedRoute
                    r == routes[i]
                IN  /\ sr.id = r.id
                    /\ sr.delayRisk = data.delayRiskScore * r.riskFactor
                    /\ sr.objectiveValue = sr.delayRisk + 10000 * r.baseTime + 10000 * r.priorityPenalty
                    /\ sr.estTime = 10000 * r.baseTime + sr.delayRisk * 10

C19_Witness ==
    /\ call.pc = "resolved"
    /\ Len(routes) = MaxRoutes
    /\ data.delayRiskScore > 0
    /\ call.input.recommendedRoute.priorityPenalty > 0
    /\ \E i \in 1..Len(routes) : calculatedRoutes[i].delayRisk > 0

\* C20: with the served catalog, route Alpha is the recommended route for
\* every delayRiskScore in [0,1], and it is the route handed to the analysis.
C20_AlphaRecommended ==
    (routes = RouteCatalog /\ data # NoData /\ data.delayRiskScore \in UnitScores) =>
        /\ recommendedRoute.id = "route-alpha"
        /\ \A i \in 2..Len(calculatedRoutes) :
             recommendedRoute.objectiveValue < calculatedRoutes[i].objectiveValue
        /\ call.pc # "idle" => call.input.recommendedRoute.id = "route-alpha"

C20_Witness ==
    /\ routes = RouteCatalog
    /\ data.delayRiskScore = 100
    /\ call.pc = "resolved"
    /\ call.input.recommendedRoute.id = "route-alpha"
    /\ call.input.recommendedRoute.objectiveValue = 121000

----------------------------------------------------------------------------
(* One invocation of explainLogisticsRisk (Spec) *)

\* C21: within one invocation the external service is called at most once,
\* the fallback generator runs at most once, the fallback runs only without a
\* valid credential (and then no call is made) or after the single external
\* call failed, and a reply of the external service is returned only when no
\* fallback ran.
C21_BranchChosenOnce ==
    call.pc # "idle" =>
        /\ call.extCalls <= 1
        /\ call.fallbacks <= 1
        /\ call.extCalls = 0 <=> ~hasApiKey(apiKey)
        /\ call.fallbacks = 1 =>
             /\ call.pc = "resolved"
             /\ \/ (~hasApiKey(apiKey) /\ call.path = "nokey")
                \/ (call.extCalls = 1 /\ call.path = "catch")
             /\ call.result = Fulfilled(generateRuleBasedExplanation(call.input))
        /\ (call.pc = "resolved" /\ call.path = "external") =>
             /\ call.fallbacks = 0
             /\ call.extCalls = 1
             /\ \E resp \in ServiceResponses(call.input) :
                  call.result = (IF resp.defined THEN Fulfilled(resp.text) ELSE FulfilledUndefined)
        /\ call.pc = "awaiting" => call.fallbacks = 0

C21_Witness ==
    /\ hasApiKey(apiKey)
    /\ call.pc = "resolved"
    /\ call.path = "catch"
    /\ call.extCalls = 1
    /\ call.fallbacks = 1

----------------------------------------------------------------------------
(* Analyses over time (Spec, FairSpec) *)

\* C22 (as claimed): while an explanation call is outstanding the user can
\* trigger a second analysis.
C22_RetriggerWhileOutstanding ==
    call.pc = "awaiting" => ENABLED HandleAnalyze

\* C22 (amended): an invocation in flight keeps isAnalyzing true, and while
\* isAnalyzing is true no analysis can be started, so at most one explanation
\* call is outstanding at any time.
C22_NoOverlap ==
    /\ call.pc # "idle" => isAnalyzing
    /\ isAnalyzing => ~ENABLED HandleAnalyze

C22_Witness ==
    /\ call.pc = "awaiting"
    /\ isAnalyzing
    /\ data # NoData
    /\ recommendedIndex # 0

\* C23 (as claimed): a displayed report corresponds to the telemetry currently
\* displayed; without a credential every report is the rule-based one, so it
\* is the rule-based report of the current data and routes.
C23_ReportOfCurrentTelemetry ==
    (NoCredential /\ aiExplanation # <<>>) =>
        aiExplanation = generateRuleBasedExplanation(AnalysisInput)

\* C28: explainLogisticsRisk settles fulfilled; the continuation of
\* handleAnalyze overwrites aiExplanation with that result and resets
\* isAnalyzing; and once the invocation has settled the analysis ends.
C28_SettledAnalysisEnds ==
    /\ [](call.pc = "resolved" => call.result.settled = "fulfilled")
    /\ [][(call.pc = "resolved" /\ call'.pc = "idle") =>
            (~isAnalyzing' /\ aiExplanation' = OrEmpty(call.result))]_vars
    /\ ((call.pc = "resolved") ~> (call.pc = "idle" /\ ~isAnalyzing))

C28_Witness ==
    /\ hasApiKey(apiKey)
    /\ lastRequest.outcome = "completed"
    /\ call.pc = "idle"
    /\ ~isAnalyzing
    /\ aiExplanation = generateRuleBasedExplanation(AnalysisInput)

----------------------------------------------------------------------------
(* What the server's telemetry can make the fallback say (Spec) *)

WithinServerRange(payload) ==
    /\ payload.delayRiskScore <= 70
    /\ payload.weatherRisk <= 5000

\* C30: every status payload the server generates has delayRiskScore <= 0.7
\* and weatherRisk <= 0.5, and no report built from it carries the critical
\* narrative or the weather clause.
C30_NoCriticalNoWeather ==
    /\ formulas.pc = "scores" =>
         (formulas.delayRiskScore <= 70000 /\ formulas.in.weatherRisk <= 5000)
    /\ fetch.pc = "pending" =>
         \A i \in 1..Len(fetch.statusRes) : WithinServerRange(fetch.statusRes[i])
    /\ data # NoData => WithinServerRange(data)
    /\ call.pc = "resolved" =>
         /\ WithinServerRange(call.input)
         /\ ~Contains(call.result.text, RiskCritical)
         /\ ~Contains(call.result.text, WeatherClause)
    /\ ~Contains(aiExplanation, RiskCritical)
    /\ ~Contains(aiExplanation, WeatherClause)

C30_Witness ==
    /\ data # NoData
    /\ data.delayRiskScore = 43
    /\ data.weatherRisk = 2498
    /\ call.pc = "idle"
    /\ Contains(aiExplanation, RiskModerate)

----------------------------------------------------------------------------
(* The fleet, the refresh and the dispatch (DispatchSpec, FairDispatchSpec) *)

\* C24: a step that changes the server fleet is the handling of one POST: it
\* puts exactly one new unit with status 'In Transit' in front of the units
\* that were there, which keep their content and order, and the response body
\* is that unit; every handled POST is such a step; answering a GET leaves the
\* fleet as it is.
C24_DispatchPrependsOne ==
    [][ /\ srvFleet' # srvFleet =>
            /\ dispatch.pc = "posting" /\ dispatch'.pc = "refreshing"
            /\ Len(srvFleet') = Len(srvFleet) + 1
            /\ Tail(srvFleet') = srvFleet
            /\ Head(srvFleet').status = "In Transit"
            /\ dispatch'.body = Head(srvFleet')
        /\ (dispatch.pc = "posting" /\ dispatch'.pc = "refreshing") =>
            Len(srvFleet') = Len(srvFleet) + 1
        /\ (fetch.pc = "pending" /\ fetch'.pc = "pending" /\ fetch' # fetch) =>
            srvFleet' = srvFleet
        /\ (dispatch.pc = "refreshing" /\ dispatch'.pc = "refreshing" /\ dispatch' # dispatch) =>
            srvFleet' = srvFleet
      ]_vars

C24_Witness ==
    /\ Len(srvFleet) = Len(InitialFleet) + 2
    /\ dispatch.pc = "refreshing"
    /\ dispatch.body = Head(srvFleet)
    /\ Head(srvFleet).status = "In Transit"
    /\ Tail(Tail(srvFleet)) = InitialFleet

\* C25: the ids of the units in the server fleet are pairwise distinct.
C25_FleetIdsDistinct ==
    \A i, j \in 1..Len(srvFleet) : i # j => srvFleet[i].id # srvFleet[j].id

C25_Witness ==
    /\ Len(srvFleet) = Len(InitialFleet) + 2
    /\ srvFleet[1].id = "MED-111"
    /\ srvFleet[2].id = "MED-110"

\* C26 (as claimed): the activeFleets count in the client's telemetry equals
\* the number of units in the client's fleet list.
C26_ActiveFleetsIsFleetLength ==
    data # NoData => data.activeFleets = Len(fleet)

Answered(f) == f.statusRes # <<>> /\ f.routesRes # <<>> /\ f.fleetRes # <<>>

AppliedFrom(f) ==
    /\ Answered(f)
    /\ data' = f.statusRes[1]
    /\ routes' = f.routesRes[1]
    /\ fleet' = f.fleetRes[1]

\* C27: a step that changes data, routes or fleet is the end of a fetchData
\* whose three requests were all answered, and sets all three from that
\* fetchData's responses; a fetchData that ends before all three were answered
\* changes none of them.
C27_RefreshAllOrNothing ==
    [][ /\ clientData' # clientData =>
            \/ (fetch.pc = "pending" /\ fetch'.pc = "idle" /\ AppliedFrom(fetch))
            \/ (dispatch.pc = "refreshing" /\ dispatch'.pc = "idle" /\ AppliedFrom(dispatch))
        /\ (fetch.pc = "pending" /\ fetch'.pc = "idle" /\ ~Answered(fetch)) =>
            UNCHANGED clientData
        /\ (dispatch.pc = "refreshing" /\ dispatch'.pc = "idle" /\ ~Answered(dispatch)) =>
            UNCHANGED clientData
      ]_vars

C27_Witness ==
    /\ data # NoData
    /\ fetch.pc = "idle"
    /\ dispatch = DispatchIdle
    /\ formulas.pc = "scores"
    /\ formulas.in.trafficRisk # data.trafficRisk

\* C29: a dispatch under way ends with isDispatching false; isDispatching is
\* true exactly while a handleDispatch invocation is in flight; the refresh is
\* awaited only after an ok response; and a POST that failed leaves data,
\* routes and fleet as they were.
C29_DispatchEnds ==
    /\ (isDispatching ~> ~isDispatching)
    /\ [](isDispatching <=> dispatch.pc # "idle")
    /\ [](dispatch.pc = "refreshing" => dispatch.ok)
    /\ [][(dispatch.pc = "posting" /\ dispatch'.pc = "idle") =>
            (dispatch'.last \in {"notok", "thrown"} /\ UNCHANGED clientData)]_vars

C29_Witness ==
    /\ dispatch = DispatchDone("notok")
    /\ ~isDispatching
    /\ data # NoData
    /\ Len(fleet) = Len(InitialFleet)

====
